---- MODULE Spec2Model ----
(***************************************************************************)
(* Model of the yelp_search notebooks.                                     *)
(*                                                                         *)
(* Two revisions of the notebook are in the repository:                    *)
(*   "ipynb"    : src/yelp_search.ipynb (location_search_params, the HTML  *)
(*                review scraper parse_page / extract_reviews)             *)
(*   "part_000" : src/unnamed/part_000 (get_url_params)                    *)
(* The variable impl records which revision a run of the search pipeline   *)
(* executes.                                                               *)
(*                                                                         *)
(* Python values are modelled as follows: a dict is a function whose       *)
(* DOMAIN is its key set (a missing key is a key outside the DOMAIN), a    *)
(* tuple and a list are sequences, a str that the code only passes around  *)
(* is a string, and a str that the code edits (location) is a sequence of  *)
(* one-character strings.                                                  *)
(***************************************************************************)
EXTENDS Integers, Sequences, FiniteSets, TLC

(***************************************************************************)
(* Bounds of the model.                                                    *)
(***************************************************************************)
\* largest number of pages a probe total can ask for
MaxPages == 3
\* largest length of a `businesses` array in an upstream response
MaxPageLen == 1
\* largest number of elements of a document handed to parse_page
MaxDocLen == 3
\* largest number of review units on one page of a fetch fixture
MaxSiteReviews == 1
\* number of fetches after which a run of extract_reviews is no longer followed
MaxFetches == 4
\* largest length of the `reviews` array of a reviews response of the API
MaxApiReviews == 2
\* largest length of the `businesses` array handed to parse_api_response
MaxBusinesses == 3

(***************************************************************************)
(* Program constants.                                                      *)
(***************************************************************************)
\* the step of the offset cursor (offset_ + 20) and the literal limit = 20
PageSize == 20

Impls == {"ipynb", "part_000"}
\* the (api_key, location) arguments of the calls: the locations "chi" and
\* "a b", the second one holding a space
Callers == {<<"k1", <<"c", "h", "i">>>>, <<"k2", <<"a", " ", "b">>>>}
Biz == {"b1", "b2"}

\* totals around every page boundary up to MaxPages pages
ProbeTotals == {t \in 0..(MaxPages * PageSize) : t % PageSize \in {0, 1, PageSize - 1}}
\* a total that later page responses may report above every probe total
\* (upstream revises its count); the other one is 0
LateTotal == (MaxPages + 2) * PageSize

RECURSIVE SeqsUpTo(_, _)
SeqsUpTo(S, n) ==
  IF n = 0 THEN {<<>>}
  ELSE LET shorter == SeqsUpTo(S, n - 1)
       IN shorter \cup {Append(s, e) : s \in {q \in shorter : Len(q) = n - 1}, e \in S}

BizLists == SeqsUpTo(Biz, MaxPageLen)

EmptyDict == [k \in {} |-> 0]

\* the JSON bodies the upstream may answer the probe with
ProbeResponses ==
  {("total" :> t) @@ ("businesses" :> b) : t \in ProbeTotals, b \in {<<>>, <<"b1">>}}
    \cup {("businesses" :> <<"b1">>) @@ EmptyDict}
\* the JSON bodies the upstream may answer a page request with
PageResponses ==
  {("total" :> 0) @@ ("businesses" :> b) : b \in BizLists \cup {<<"b2", "b1">>}}
    \cup {("total" :> LateTotal) @@ ("businesses" :> <<>>)}
    \cup {("total" :> 0) @@ EmptyDict}

(***************************************************************************)
(* State.                                                                  *)
(***************************************************************************)
VARIABLES
  impl,              \* which revision of the notebook runs
  api_key,           \* argument of all_restaurants
  location,          \* argument of all_restaurants
  pc,                \* position inside all_restaurants
  total_items,       \* all_restaurants: total_items (-1 before it is set)
  restaurant_pages,  \* all_restaurants: restaurant_pages
  i,                 \* all_restaurants: loop index i (0-based)
  result,            \* all_restaurants: result
  retval,            \* what all_restaurants returned, if it did
  error,             \* the exception that left all_restaurants, or "none"
  requests,          \* HTTP GET requests issued so far, (url, headers, url_params)
  responses,         \* the JSON body received for each request
  trace,             \* order of events: "probe", "build", "sleep", "page"
  html,              \* parse_page: the document it is called with
  parsed,            \* parse_page: its outcome
  ppc,               \* position of the caller of parse_page
  site,              \* the fixture behind html_fetcher: url -> html
  url,               \* extract_reviews: url
  reviews,           \* extract_reviews: reviews
  next_url,          \* extract_reviews: next_url
  rpc,               \* position inside extract_reviews
  rerror,            \* the exception that left extract_reviews, or "none"
  rretval,           \* what extract_reviews returned, if it did
  fetched,           \* the urls html_fetcher was invoked with, in order
  code,              \* extract_reviews: code, the status of the last fetch
  offset,            \* yelp_search: the argument offset
  ypc,               \* position inside yelp_search
  yretval,           \* what yelp_search returned, if it did
  business,          \* API extract_reviews: name, address, city, state, country
  business_id,       \* API extract_reviews: business_id
  apc,               \* position inside the API extract_reviews
  aretval,           \* what the API extract_reviews returned, if it did
  data,              \* parse_api_response: the JSON text it is called with
  urls,              \* parse_api_response: urls
  jpc                \* position of the caller of parse_api_response

searchVars == <<impl, api_key, location, pc, total_items, restaurant_pages, i,
                result, retval, error, requests, responses, trace>>

parseVars == <<html, parsed, ppc>>

reviewVars == <<site, url, reviews, next_url, rpc, rerror, rretval, fetched, code>>

yelpVars == <<offset, ypc, yretval>>

apiVars == <<business, business_id, apc, aretval>>

jsonVars == <<data, urls, jpc>>

otherVars == <<yelpVars, apiVars, jsonVars>>

vars == <<searchVars, parseVars, reviewVars, otherVars>>

NotReturned == [returned |-> FALSE, value |-> <<>>]
Returned(v) == [returned |-> TRUE, value |-> v]

\* Python's None and a str, where a variable may hold either
None == [none |-> TRUE, str |-> ""]
Str(s) == [none |-> FALSE, str |-> s]

Urls == {"u1", "u2", "u3"}

NotParsed == [raised |-> "none", reviews_list |-> <<>>, url_next |-> None]

\* the search pipeline before any call of all_restaurants
IdleSearch ==
  /\ impl = "ipynb"
  /\ api_key = ""
  /\ location = <<>>
  /\ pc = "idle"
  /\ total_items = -1
  /\ restaurant_pages = <<>>
  /\ i = 0
  /\ result = <<>>
  /\ retval = NotReturned
  /\ error = "none"
  /\ requests = <<>>
  /\ responses = <<>>
  /\ trace = <<>>

\* no call of parse_page is in progress
IdleParse ==
  /\ html = <<>>
  /\ parsed = NotParsed
  /\ ppc = "idle"

\* the review scraper before any call of extract_reviews
IdleReviews ==
  /\ site = [u \in Urls |-> <<>>]
  /\ url = ""
  /\ reviews = <<>>
  /\ next_url = None
  /\ rpc = "idle"
  /\ rerror = "none"
  /\ rretval = NotReturned
  /\ fetched = <<>>
  /\ code = 0

\* the business arguments of a call that was not made
NoBusiness == [name |-> "", address |-> "", city |-> "", state |-> "", country |-> ""]

\* what the API extract_reviews returns: None, or the pair (reviews, total)
NoPair == [returned |-> FALSE, none |-> FALSE, reviews |-> <<>>, total |-> 0]
ReturnedNone == [returned |-> TRUE, none |-> TRUE, reviews |-> <<>>, total |-> 0]
ReturnedPair(r, t) == [returned |-> TRUE, none |-> FALSE, reviews |-> r, total |-> t]

\* what yelp_search returns: the pair (total, businesses)
NoSearchResult == [returned |-> FALSE, total |-> 0, businesses |-> <<>>]
SearchResult(t, b) == [returned |-> TRUE, total |-> t, businesses |-> b]

\* no call of yelp_search is in progress
IdleYelp ==
  /\ offset = 0
  /\ ypc = "idle"
  /\ yretval = NoSearchResult

\* no call of the API extract_reviews is in progress
IdleApi ==
  /\ business = NoBusiness
  /\ business_id = None
  /\ apc = "idle"
  /\ aretval = NoPair

\* a str argument of parse_api_response: text that json.loads turns into the
\* value, or text that is no JSON
JsonText(v) == [json |-> TRUE, value |-> v]
NotJson == [json |-> FALSE, value |-> EmptyDict]

\* no call of parse_api_response is in progress
IdleJson ==
  /\ data = NotJson
  /\ urls = <<>>
  /\ jpc = "idle"

IdleOther == IdleYelp /\ IdleApi /\ IdleJson

(***************************************************************************)
(* Request construction.                                                   *)
(***************************************************************************)
\* str.replace(" ", "-") on a str held as a sequence of characters
ReplaceSpaces(s) == [k \in 1..Len(s) |-> IF s[k] = " " THEN "-" ELSE s[k]]

Bearer(key) == [Authorization |-> "Bearer " \o key]

\* location_search_params(api_key, location, **kwargs) of the ipynb revision
location_search_params(key, loc, kwargs) ==
  LET endpoint == "https://api.yelp.com/v3/businesses/search"
      headers == Bearer(key)
      url_params == kwargs @@ ("location" :> ReplaceSpaces(loc))
  IN [raised |-> "none", value |-> <<endpoint, headers, url_params>>]

\* get_url_params(url_addition, api_key, **kwargs) of the part_000 revision;
\* args is the list of positional arguments of the call: the function takes
\* exactly two, any other number is a TypeError at the call
get_url_params(args, kwargs) ==
  IF Len(args) # 2
  THEN [raised |-> "TypeError", value |-> <<>>]
  ELSE LET endpoint == "https://api.yelp.com/v3/businesses" \o args[1]
           headers == Bearer(args[2])
           url_params == kwargs
       IN [raised |-> "none", value |-> <<endpoint, headers, url_params>>]

\* the keyword arguments of the call inside the pagination loop
PageKwargs(current_offset) ==
  ("offset" :> current_offset) @@ ("limit" :> PageSize) @@ ("categories" :> "restaurants")

\* the call of the parameter builder inside paginated_restaurant_search_requests
PageParams(im, key, loc, current_offset) ==
  IF im = "ipynb"
  THEN location_search_params(key, loc, PageKwargs(current_offset))
  ELSE get_url_params(<<"/search", key, loc>>, PageKwargs(current_offset))

\* ProbeParams with the limit and the category filter of the page requests
ProbeParams_Filtered(im, key, loc) ==
  IF im = "ipynb"
  THEN location_search_params(key, loc, PageKwargs(0))
  ELSE get_url_params(<<"/search", key>>, ("location" :> loc) @@ PageKwargs(0))

\* the call of the parameter builder at the top of all_restaurants
ProbeParams(im, key, loc) ==
  IF im = "ipynb"
  THEN location_search_params(key, loc, "offset" :> 0)
  ELSE get_url_params(<<"/search", key>>, ("location" :> loc) @@ ("offset" :> 0))

\* PaginateFrom without the time.sleep(.3) of the loop body
RECURSIVE PaginateFrom_NoSleep(_, _, _, _, _, _, _)
PaginateFrom_NoSleep(im, key, loc, total, current_offset, pages, events) ==
  IF ~(current_offset < total)
  THEN [raised |-> "none", pages |-> pages, events |-> events]
  ELSE LET p == PageParams(im, key, loc, current_offset)
       IN IF p.raised # "none"
          THEN [raised |-> p.raised, pages |-> <<>>, events |-> events]
          ELSE PaginateFrom_NoSleep(im, key, loc, total, current_offset + PageSize,
                                    Append(pages, p.value),
                                    Append(events, "build"))

\* paginated_restaurant_search_requests(api_key, location, total): the while
\* loop from current_offset on, with the pages and the events so far
RECURSIVE PaginateFrom(_, _, _, _, _, _, _)
PaginateFrom(im, key, loc, total, current_offset, pages, events) ==
  IF ~(current_offset < total)
  THEN [raised |-> "none", pages |-> pages, events |-> events]
  ELSE LET p == PageParams(im, key, loc, current_offset)
       IN IF p.raised # "none"
          THEN [raised |-> p.raised, pages |-> <<>>, events |-> events]
          ELSE PaginateFrom(im, key, loc, total, current_offset + PageSize,
                            Append(pages, p.value),
                            events \o <<"build", "sleep">>)

paginated_restaurant_search_requests(im, key, loc, total) ==
  PaginateFrom(im, key, loc, total, 0, <<>>, <<>>)

(***************************************************************************)
(* Documents.  An HTML document is the sequence, in document order, of the *)
(* elements parse_page can see: link elements and div elements.  A review  *)
(* unit lists, for each nested field, the descendants that carry it, each  *)
(* as its dict of attributes, and the texts of its p descendants.          *)
(***************************************************************************)
Link(rel, attrs) == [tag |-> "link", rel |-> rel, attrs |-> attrs]
Href(u) == "href" :> u
Content(c) == "content" :> c

ReviewUnit(author, ratingValue, datePublished, ps) ==
  [tag |-> "div", itemprop |-> "review", author |-> author,
   ratingValue |-> ratingValue, datePublished |-> datePublished, ps |-> ps]

Good1 == ReviewUnit(<<Content("ann")>>, <<Content("4.0")>>, <<Content("2020-01-02")>>, <<"t1">>)
Good2 == ReviewUnit(<<Content("bob")>>, <<Content("5")>>, <<Content("Jan 2")>>, <<"t2", "t3">>)
\* Good1 with one nested field broken
NoAuthor == [Good1 EXCEPT !.author = <<>>]
NoAuthorContent == [Good1 EXCEPT !.author = <<EmptyDict>>]
NoRating == [Good1 EXCEPT !.ratingValue = <<>>]
BadRating == [Good1 EXCEPT !.ratingValue = <<Content("x")>>]
NoDate == [Good1 EXCEPT !.datePublished = <<>>]
NoParagraph == [Good1 EXCEPT !.ps = <<>>]
\* a div that is not a review unit
OtherDiv == [Good2 EXCEPT !.itemprop = "other"]

\* a unit whose rating attribute is outside the scale of the site
HighRating == [Good2 EXCEPT !.ratingValue = <<Content("9")>>]

GoodUnits == {Good1, Good2, HighRating}
DefectiveUnits == {NoAuthor, NoAuthorContent, NoRating, BadRating, NoDate, NoParagraph}

Links == {Link({"next"}, Href("u2")), Link({"next", "nofollow"}, Href("u3")),
          Link({"prev"}, Href("u1")), Link({"next"}, EmptyDict),
          Link({"next"}, Href(""))}

Elements == GoodUnits \cup DefectiveUnits \cup {OtherDiv} \cup Links

Docs == SeqsUpTo(Elements, MaxDocLen)

(***************************************************************************)
(* parse_page.                                                             *)
(***************************************************************************)
\* float(text): the value in tenths, or a ValueError
Floats == ("4.0" :> 40) @@ ("5" :> 50) @@ ("0.5" :> 5) @@ ("9" :> 90)
float(text) ==
  IF text \in DOMAIN Floats
  THEN [raised |-> "none", value |-> Floats[text]]
  ELSE [raised |-> "ValueError", value |-> 0]

\* soup.find('link', rel='next'): the link elements whose rel holds "next"
IsNextLink(e) == e.tag = "link" /\ "next" \in e.rel
\* soup.find_all('div', itemprop="review")
IsReview(e) == e.tag = "div" /\ e.itemprop = "review"

\* UrlNext taking the last next-link of the document instead of the first
UrlNext_Last(doc) ==
  LET found == SelectSeq(doc, IsNextLink)
  IN IF found # <<>>
     THEN IF "href" \in DOMAIN found[Len(found)].attrs
          THEN Str(found[Len(found)].attrs["href"])
          ELSE None
     ELSE None

\* UrlNext giving None for a next-link whose href is the empty string
UrlNext_EmptyIsNone(doc) ==
  LET found == SelectSeq(doc, IsNextLink)
  IN IF found # <<>>
     THEN IF "href" \in DOMAIN found[1].attrs /\ found[1].attrs["href"] # ""
          THEN Str(found[1].attrs["href"])
          ELSE None
     ELSE None

\* the first lines of parse_page: url_next
UrlNext(doc) ==
  LET found == SelectSeq(doc, IsNextLink)
  IN IF found # <<>>
     THEN IF "href" \in DOMAIN found[1].attrs
          THEN Str(found[1].attrs["href"])
          ELSE None
     ELSE None

\* ParseReview taking the text of the last paragraph of the unit
ParseReview_LastParagraph(r) ==
  IF r.author = <<>> THEN [raised |-> "AttributeError", review |-> EmptyDict]
  ELSE IF "content" \notin DOMAIN r.author[1] THEN [raised |-> "KeyError", review |-> EmptyDict]
  ELSE IF r.ratingValue = <<>> THEN [raised |-> "AttributeError", review |-> EmptyDict]
  ELSE IF "content" \notin DOMAIN r.ratingValue[1] THEN [raised |-> "KeyError", review |-> EmptyDict]
  ELSE IF float(r.ratingValue[1]["content"]).raised # "none"
    THEN [raised |-> "ValueError", review |-> EmptyDict]
  ELSE IF r.datePublished = <<>> THEN [raised |-> "AttributeError", review |-> EmptyDict]
  ELSE IF "content" \notin DOMAIN r.datePublished[1] THEN [raised |-> "KeyError", review |-> EmptyDict]
  ELSE IF r.ps = <<>> THEN [raised |-> "AttributeError", review |-> EmptyDict]
  ELSE [raised |-> "none",
        review |-> [author |-> r.author[1]["content"],
                    rating |-> float(r.ratingValue[1]["content"]).value,
                    date |-> r.datePublished[1]["content"],
                    description |-> r.ps[Len(r.ps)]]]

\* ParseReview bringing the rating into the scale 1.0 .. 5.0
ParseReview_Clamp(r) ==
  IF r.author = <<>> THEN [raised |-> "AttributeError", review |-> EmptyDict]
  ELSE IF "content" \notin DOMAIN r.author[1] THEN [raised |-> "KeyError", review |-> EmptyDict]
  ELSE IF r.ratingValue = <<>> THEN [raised |-> "AttributeError", review |-> EmptyDict]
  ELSE IF "content" \notin DOMAIN r.ratingValue[1] THEN [raised |-> "KeyError", review |-> EmptyDict]
  ELSE IF float(r.ratingValue[1]["content"]).raised # "none"
    THEN [raised |-> "ValueError", review |-> EmptyDict]
  ELSE IF r.datePublished = <<>> THEN [raised |-> "AttributeError", review |-> EmptyDict]
  ELSE IF "content" \notin DOMAIN r.datePublished[1] THEN [raised |-> "KeyError", review |-> EmptyDict]
  ELSE IF r.ps = <<>> THEN [raised |-> "AttributeError", review |-> EmptyDict]
  ELSE [raised |-> "none",
        review |-> [author |-> r.author[1]["content"],
                    rating |-> LET v == float(r.ratingValue[1]["content"]).value
                               IN IF v > 50 THEN 50 ELSE IF v < 10 THEN 10 ELSE v,
                    date |-> r.datePublished[1]["content"],
                    description |-> r.ps[1]]]

\* the body of the for loop of parse_page on review unit r
ParseReview(r) ==
  IF r.author = <<>> THEN [raised |-> "AttributeError", review |-> EmptyDict]
  ELSE IF "content" \notin DOMAIN r.author[1] THEN [raised |-> "KeyError", review |-> EmptyDict]
  ELSE IF r.ratingValue = <<>> THEN [raised |-> "AttributeError", review |-> EmptyDict]
  ELSE IF "content" \notin DOMAIN r.ratingValue[1] THEN [raised |-> "KeyError", review |-> EmptyDict]
  ELSE IF float(r.ratingValue[1]["content"]).raised # "none"
    THEN [raised |-> "ValueError", review |-> EmptyDict]
  ELSE IF r.datePublished = <<>> THEN [raised |-> "AttributeError", review |-> EmptyDict]
  ELSE IF "content" \notin DOMAIN r.datePublished[1] THEN [raised |-> "KeyError", review |-> EmptyDict]
  ELSE IF r.ps = <<>> THEN [raised |-> "AttributeError", review |-> EmptyDict]
  ELSE [raised |-> "none",
        review |-> [author |-> r.author[1]["content"],
                    rating |-> float(r.ratingValue[1]["content"]).value,
                    date |-> r.datePublished[1]["content"],
                    description |-> r.ps[1]]]

\* ParseReviews with a try/except around the loop body: a unit that cannot be
\* parsed is skipped
RECURSIVE ParseReviews_Skip(_, _, _)
ParseReviews_Skip(units, k, reviews_list) ==
  IF k > Len(units)
  THEN [raised |-> "none", reviews_list |-> reviews_list]
  ELSE LET one == ParseReview(units[k])
       IN IF one.raised # "none"
          THEN ParseReviews_Skip(units, k + 1, reviews_list)
          ELSE ParseReviews_Skip(units, k + 1, Append(reviews_list, one.review))

\* the for loop of parse_page from index k (1-based) on
RECURSIVE ParseReviews(_, _, _)
ParseReviews(units, k, reviews_list) ==
  IF k > Len(units)
  THEN [raised |-> "none", reviews_list |-> reviews_list]
  ELSE LET one == ParseReview(units[k])
       IN IF one.raised # "none"
          THEN [raised |-> one.raised, reviews_list |-> <<>>]
          ELSE ParseReviews(units, k + 1, Append(reviews_list, one.review))

\* parse_page(html): (reviews_list, url_next), or the exception it raises
parse_page(doc) ==
  LET url_next == UrlNext(doc)
      units == SelectSeq(doc, IsReview)
      looped == ParseReviews(units, 1, <<>>)
  IN IF looped.raised # "none"
     THEN [raised |-> looped.raised, reviews_list |-> <<>>, url_next |-> None]
     ELSE [raised |-> "none", reviews_list |-> looped.reviews_list, url_next |-> url_next]

InitParse ==
  /\ IdleSearch
  /\ IdleReviews
  /\ IdleOther
  /\ html \in Docs
  /\ parsed = NotParsed
  /\ ppc = "call"

\* one call parse_page(html)
ParsePage ==
  /\ ppc = "call"
  /\ parsed' = parse_page(html)
  /\ ppc' = IF parsed'.raised = "none" THEN "returned" ELSE "raised"
  /\ UNCHANGED <<html, searchVars, reviewVars, otherVars>>

NextParse == ParsePage

SpecParse == InitParse /\ [][NextParse]_vars

(***************************************************************************)
(* Properties of parse_page.                                               *)
(***************************************************************************)
\* the review units of the document html, in document order
UnitsOf(doc) == SelectSeq(doc, IsReview)

\* a review unit with its four nested fields, each readable
WellFormed(r) ==
  /\ r.author # <<>> /\ "content" \in DOMAIN r.author[1]
  /\ r.ratingValue # <<>> /\ "content" \in DOMAIN r.ratingValue[1]
  /\ r.ratingValue[1]["content"] \in {"4.0", "5", "0.5", "9"}
  /\ r.datePublished # <<>> /\ "content" \in DOMAIN r.datePublished[1]
  /\ r.ps # <<>>

\* a review unit without one of its four nested fields
LacksField(r) ==
  r.author = <<>> \/ r.ratingValue = <<>> \/ r.datePublished = <<>> \/ r.ps = <<>>

\* the positions of the next-link elements of the document
NextLinkAt(doc) == {k \in 1..Len(doc) : doc[k].tag = "link" /\ "next" \in doc[k].rel}

\* the least element of a non-empty set of numbers
Least(S) == CHOOSE k \in S : \A j \in S : k <= j

\* the href of the first next-link element of the document; None when the
\* document has no such element or that element has no href
FirstNextHref(doc) ==
  IF NextLinkAt(doc) = {}
  THEN None
  ELSE LET first == doc[Least(NextLinkAt(doc))]
       IN IF "href" \in DOMAIN first.attrs THEN Str(first.attrs["href"]) ELSE None

\* the number a rating text denotes, in tenths
TenthsOf(text) ==
  CASE text = "4.0" -> 40 [] text = "5" -> 50 [] text = "0.5" -> 5 [] text = "9" -> 90

\* the record of a well-formed review unit
RecordOf(r) ==
  [author |-> r.author[1]["content"],
   rating |-> TenthsOf(r.ratingValue[1]["content"]),
   date |-> r.datePublished[1]["content"],
   description |-> r.ps[1]]

\* C5: on a document whose N >= 0 review units are all well formed,
\* parse_page returns N records in document order, record k carrying the
\* author, the rating as a number, the date text as written and the text of
\* the first paragraph of unit k; with N = 0 it returns the empty list and
\* the continuation of the next link.
C5_RecordsInDocumentOrder ==
  (ppc # "call" /\ \A k \in 1..Len(UnitsOf(html)) : WellFormed(UnitsOf(html)[k])) =>
    /\ ppc = "returned"
    /\ Len(parsed.reviews_list) = Len(UnitsOf(html))
    /\ \A k \in 1..Len(UnitsOf(html)) :
         LET r == UnitsOf(html)[k]
         IN parsed.reviews_list[k] = RecordOf(r)
    /\ (UnitsOf(html) = <<>> =>
          parsed.reviews_list = <<>> /\ parsed.url_next = FirstNextHref(html))

\* parse_page returned two different records, the second one from a unit
\* with more than one paragraph
C5_Witness ==
  /\ ppc = "returned"
  /\ Len(parsed.reviews_list) = 2
  /\ parsed.reviews_list[1].author = "ann"
  /\ parsed.reviews_list[2].author = "bob"
  /\ parsed.reviews_list[2].description = "t2"

\* C6: the continuation parse_page returns is the href attribute of the
\* first next-link element of the document (None when that element has no
\* href) and None when the document has no next-link element; removing the
\* review units from the document does not change it.
C6_ContinuationIsFirstNextLink ==
  ppc = "returned" =>
    /\ parsed.url_next = FirstNextHref(html)
    /\ (NextLinkAt(html) = {} => parsed.url_next = None)
    /\ parsed.url_next = parse_page(SelectSeq(html, LAMBDA e : ~IsReview(e))).url_next

\* parse_page returned on a document with two next links of different
\* targets and a review unit
C6_Witness ==
  /\ ppc = "returned"
  /\ Cardinality(NextLinkAt(html)) = 2
  /\ UnitsOf(html) # <<>>
  /\ parsed.url_next = Str("u2")
  /\ \E k \in NextLinkAt(html) : html[k].attrs = Href("u3")

\* C7: when a review unit of the document lacks one of its four nested
\* fields, parse_page raises and returns nothing: no record of the units
\* before the defective one, and no list that skips the defective unit.
C7_MissingFieldFailsWholeCall ==
  (ppc # "call" /\ \E k \in 1..Len(UnitsOf(html)) : LacksField(UnitsOf(html)[k])) =>
    /\ ppc = "raised"
    /\ parsed.raised \in {"AttributeError", "KeyError", "ValueError"}
    /\ parsed.reviews_list = <<>>

\* parse_page raised on a document whose first review unit is well formed
\* and whose last one lacks a field
C7_Witness ==
  /\ ppc = "raised"
  /\ Len(UnitsOf(html)) >= 2
  /\ WellFormed(UnitsOf(html)[1])
  /\ LacksField(UnitsOf(html)[Len(UnitsOf(html))])
  /\ parsed.reviews_list = <<>>


\* the texts of the form yyyy-mm-dd among the date texts of the documents
IsoDates == {"2020-01-02"}
\* the rating texts that denote a number from 1.0 to 5.0
RatingsInScale == {"4.0", "5"}

InitSearch ==
  /\ IdleParse
  /\ IdleReviews
  /\ IdleOther
  /\ impl \in Impls
  /\ \E c \in Callers : api_key = c[1] /\ location = c[2]
  /\ pc = "probe"
  /\ total_items = -1
  /\ restaurant_pages = <<>>
  /\ i = 0
  /\ result = <<>>
  /\ retval = NotReturned
  /\ error = "none"
  /\ requests = <<>>
  /\ responses = <<>>
  /\ trace = <<>>

\* Probe keeping the `businesses` of the probe response as the first records
\* of result
Probe_SeedsResult ==
  /\ pc = "probe"
  /\ \E content_json \in ProbeResponses :
       LET p == ProbeParams(impl, api_key, location)
       IN /\ requests' = Append(requests, p.value)
          /\ responses' = Append(responses, content_json)
          /\ trace' = Append(trace, "probe")
          /\ IF "total" \in DOMAIN content_json
             THEN /\ total_items' = content_json["total"]
                  /\ pc' = "paginate"
                  /\ error' = error
             ELSE /\ total_items' = total_items
                  /\ pc' = "raised"
                  /\ error' = "KeyError"
          /\ result' = content_json["businesses"]
  /\ UNCHANGED <<impl, api_key, location, restaurant_pages, i, retval>>
  /\ UNCHANGED <<parseVars, reviewVars, otherVars>>

\* the first request of all_restaurants and the read of content_json["total"]
Probe ==
  /\ pc = "probe"
  /\ \E content_json \in ProbeResponses :
       LET p == ProbeParams(impl, api_key, location)
       IN /\ requests' = Append(requests, p.value)
          /\ responses' = Append(responses, content_json)
          /\ trace' = Append(trace, "probe")
          /\ IF "total" \in DOMAIN content_json
             THEN /\ total_items' = content_json["total"]
                  /\ pc' = "paginate"
                  /\ error' = error
             ELSE /\ total_items' = total_items
                  /\ pc' = "raised"
                  /\ error' = "KeyError"
  /\ UNCHANGED <<impl, api_key, location, restaurant_pages, i, result, retval>>
  /\ UNCHANGED <<parseVars, reviewVars, otherVars>>

\* Paginate with a builder that sends each request as it builds it
Paginate_IssuesRequests ==
  /\ pc = "paginate"
  /\ LET r == paginated_restaurant_search_requests(impl, api_key, location, total_items)
     IN /\ trace' = trace \o r.events
        /\ requests' = requests \o r.pages
        /\ IF r.raised = "none"
           THEN /\ restaurant_pages' = r.pages
                /\ pc' = "pages"
                /\ error' = error
           ELSE /\ restaurant_pages' = restaurant_pages
                /\ pc' = "raised"
                /\ error' = r.raised
  /\ UNCHANGED <<impl, api_key, location, total_items, i, result, retval, responses>>
  /\ UNCHANGED <<parseVars, reviewVars, otherVars>>

\* restaurant_pages = paginated_restaurant_search_requests(api_key, location, total_items)
Paginate ==
  /\ pc = "paginate"
  /\ LET r == paginated_restaurant_search_requests(impl, api_key, location, total_items)
     IN /\ trace' = trace \o r.events
        /\ IF r.raised = "none"
           THEN /\ restaurant_pages' = r.pages
                /\ pc' = "pages"
                /\ error' = error
           ELSE /\ restaurant_pages' = restaurant_pages
                /\ pc' = "raised"
                /\ error' = r.raised
  /\ UNCHANGED <<impl, api_key, location, total_items, i, result, retval,
                 requests, responses>>
  /\ UNCHANGED <<parseVars, reviewVars, otherVars>>

\* PageRequest reading the page with content_json.get('businesses', []): a
\* response without `businesses` counts as an empty page
PageRequest_SkipFaulty ==
  /\ pc = "pages"
  /\ i < Len(restaurant_pages)
  /\ \E content_json \in PageResponses :
       LET page == restaurant_pages[i + 1]
           page_data == IF "businesses" \in DOMAIN content_json
                        THEN content_json["businesses"] ELSE <<>>
       IN /\ requests' = Append(requests, <<page[1], page[2], page[3]>>)
          /\ responses' = Append(responses, content_json)
          /\ result' = result \o page_data
          /\ trace' = trace \o <<"page", "sleep">>
          /\ i' = i + 1
          /\ UNCHANGED <<pc, error>>
  /\ UNCHANGED <<impl, api_key, location, total_items, restaurant_pages, retval>>
  /\ UNCHANGED <<parseVars, reviewVars, otherVars>>

\* PageRequest re-reading `total` from every page response: the loop ends as
\* soon as the next offset is not below the total just reported
PageRequest_RefreshTotal ==
  /\ pc = "pages"
  /\ i < Len(restaurant_pages)
  /\ \E content_json \in PageResponses :
       LET page == restaurant_pages[i + 1]
       IN /\ requests' = Append(requests, <<page[1], page[2], page[3]>>)
          /\ responses' = Append(responses, content_json)
          /\ IF "businesses" \in DOMAIN content_json
             THEN /\ result' = result \o content_json["businesses"]
                  /\ trace' = trace \o <<"page", "sleep">>
                  /\ i' = IF (i + 1) * PageSize < content_json["total"]
                          THEN i + 1 ELSE Len(restaurant_pages)
                  /\ pc' = pc
                  /\ error' = error
             ELSE /\ result' = result
                  /\ trace' = Append(trace, "page")
                  /\ i' = i
                  /\ pc' = "raised"
                  /\ error' = "KeyError"
  /\ UNCHANGED <<impl, api_key, location, total_items, restaurant_pages, retval>>
  /\ UNCHANGED <<parseVars, reviewVars, otherVars>>

\* one iteration of `for i in range(len(restaurant_pages))`
PageRequest ==
  /\ pc = "pages"
  /\ i < Len(restaurant_pages)
  /\ \E content_json \in PageResponses :
       LET page == restaurant_pages[i + 1]
       IN /\ requests' = Append(requests, <<page[1], page[2], page[3]>>)
          /\ responses' = Append(responses, content_json)
          /\ IF "businesses" \in DOMAIN content_json
             THEN /\ result' = result \o content_json["businesses"]
                  /\ trace' = trace \o <<"page", "sleep">>
                  /\ i' = i + 1
                  /\ pc' = pc
                  /\ error' = error
             ELSE /\ result' = result
                  /\ trace' = Append(trace, "page")
                  /\ i' = i
                  /\ pc' = "raised"
                  /\ error' = "KeyError"
  /\ UNCHANGED <<impl, api_key, location, total_items, restaurant_pages, retval>>
  /\ UNCHANGED <<parseVars, reviewVars, otherVars>>

\* `return result` once the for loop is exhausted
Return ==
  /\ pc = "pages"
  /\ i = Len(restaurant_pages)
  /\ pc' = "done"
  /\ retval' = Returned(result)
  /\ UNCHANGED <<impl, api_key, location, total_items, restaurant_pages, i,
                 result, error, requests, responses, trace>>
  /\ UNCHANGED <<parseVars, reviewVars, otherVars>>

NextSearch == Probe \/ Paginate \/ PageRequest \/ Return

SpecSearch == InitSearch /\ [][NextSearch]_vars

(***************************************************************************)
(* Properties of all_restaurants.                                          *)
(***************************************************************************)
\* ceil(t / PageSize) for t >= 0
CeilPages(t) == (t + PageSize - 1) \div PageSize

\* the number of occurrences of e in the sequence s
Count(s, e) == Cardinality({k \in 1..Len(s) : s[k] = e})

\* the offsets of the page requests issued so far, in the order of issue
PageOffsets == [k \in 1..(Len(requests) - 1) |-> requests[k + 1][3]["offset"]]

\* the offsets 0, 20, 40, ... below t
OffsetsBelow(t) == [k \in 1..CeilPages(t) |-> (k - 1) * PageSize]

\* response k lacks the field all_restaurants reads from it
Faulty(k) ==
  IF k = 1 THEN "total" \notin DOMAIN responses[1]
  ELSE "businesses" \notin DOMAIN responses[k]

NoFaultyResponse == \A k \in 1..Len(responses) : ~Faulty(k)

Ended == pc \in {"done", "raised"}

\* C1 (as claimed): a run of all_restaurants whose responses all carry their
\* fields ends by returning, after one probe request and exactly
\* ceil(total/20) page requests at the offsets 0, 20, 40, ... < total; with
\* total = 0 it issues no page request and returns the empty list.
C1_ProbeThenCeilPages ==
  (Ended /\ NoFaultyResponse) =>
    /\ pc = "done"
    /\ Count(trace, "probe") = 1 /\ trace[1] = "probe"
    /\ PageOffsets = OffsetsBelow(responses[1]["total"])
    /\ \A k \in 1..Len(PageOffsets) : PageOffsets[k] < responses[1]["total"]
    /\ (responses[1]["total"] = 0 => retval = Returned(<<>>))

\* C1 restricted to the ipynb revision, where the pagination loop passes
\* location as the second positional argument of location_search_params
C1_IpynbProbeThenCeilPages == (impl = "ipynb") => C1_ProbeThenCeilPages

\* C2 (as claimed): the pauses of a run are exactly the pauses after the page
\* requests: every pause directly follows a page request, and a run that
\* returns has paused as often as it issued page requests.
C2_PauseOnlyAfterPageRequest ==
  /\ \A k \in 1..Len(trace) : trace[k] = "sleep" => (k > 1 /\ trace[k - 1] = "page")
  /\ (pc = "done" => Count(trace, "sleep") = Count(trace, "page"))

\* C2 (amended): a pause happens once after each request tuple built by
\* paginated_restaurant_search_requests and once after each page request
\* that was answered with a `businesses` array, and nowhere else; the pauses
\* of the builder all precede the first page request, and a run that returns
\* has paused twice as often as it issued page requests.
C2_PauseAfterBuildAndPage ==
  /\ \A k \in 1..Len(trace) :
       /\ trace[k] = "sleep" => (k > 1 /\ trace[k - 1] \in {"build", "page"})
       /\ trace[k] = "build" => (k < Len(trace) /\ trace[k + 1] = "sleep")
       /\ trace[k] = "page" =>
            IF k < Len(trace) THEN trace[k + 1] = "sleep"
            ELSE pc = "raised" /\ Faulty(Len(responses))
       /\ \A j \in 1..Len(trace) : (trace[k] = "build" /\ trace[j] = "page") => k < j
  /\ pc \in {"pages", "done"} => Count(trace, "build") = CeilPages(total_items)
  /\ pc = "done" => Count(trace, "sleep") = 2 * Count(trace, "page")

\* a run that returned after two page requests or more
C2_Witness ==
  pc = "done" /\ Count(trace, "page") >= 2 /\ Count(trace, "sleep") = 2 * Count(trace, "page")

\* C8: a response that lacks the field read from it (`total` of the probe
\* response, `businesses` of a page response) is the last one of the run: no
\* request follows it and all_restaurants returns no list.
C8_FaultyResponseAborts ==
  \A k \in 1..Len(responses) :
    Faulty(k) => /\ Len(requests) = k
                 /\ pc = "raised"
                 /\ error = "KeyError"
                 /\ retval = NotReturned

\* a page response without `businesses` arrived after records were
\* accumulated and while page requests were still to be issued
C8_Witness ==
  /\ pc = "raised"
  /\ Len(responses) >= 3 /\ Faulty(Len(responses))
  /\ result # <<>>
  /\ Len(requests) - 1 < Len(restaurant_pages)

\* C9: the page requests issued so far are the first planned ones of the
\* probe total, whatever the page responses reported: request k + 1 carries
\* the offset 20 * (k - 1) < total of the probe response, and a run that
\* returns has issued ceil(probe total / 20) of them.
C9_PagesFollowProbeTotal ==
  LET probed == responses[1]["total"]
  IN Len(requests) >= 2 =>
       /\ \A k \in 1..Len(PageOffsets) :
            PageOffsets[k] = (k - 1) * PageSize /\ PageOffsets[k] < probed
       /\ Len(PageOffsets) <= CeilPages(probed)
       /\ (pc = "done" => Len(PageOffsets) = CeilPages(probed))

\* a run returned although a page response reported another total than the
\* probe and a page came back empty
C9_Witness ==
  /\ pc = "done"
  /\ Len(requests) >= 3
  /\ \E k \in 2..Len(responses) : responses[k]["total"] # responses[1]["total"]
  /\ \E k \in 2..Len(responses) : responses[k]["businesses"] = <<>>
  /\ \E k \in 2..Len(responses) : responses[k]["total"] = 0
  /\ \E k \in 2..Len(responses) : responses[k]["total"] > responses[1]["total"]

\* the `businesses` arrays of the page responses 2..n, one after the other
RECURSIVE ConcatPages(_)
ConcatPages(n) ==
  IF n <= 1 THEN <<>>
  ELSE ConcatPages(n - 1) \o (IF Faulty(n) THEN <<>> ELSE responses[n]["businesses"])

\* the sum of the lengths of the `businesses` arrays of the page responses 2..n
RECURSIVE SumPageLens(_)
SumPageLens(n) ==
  IF n <= 1 THEN 0
  ELSE SumPageLens(n - 1) + (IF Faulty(n) THEN 0 ELSE Len(responses[n]["businesses"]))

\* C11: the list all_restaurants returns is the `businesses` arrays of the
\* page responses in the order of the requests (increasing offset), in-page
\* order kept; its length is the sum of their lengths, whatever `total` is,
\* and the `businesses` of the probe response are not part of it.
C11_ResultIsConcatenationOfPages ==
  /\ pc \in {"pages", "done"} => result = ConcatPages(Len(responses))
  /\ pc = "done" =>
       /\ retval = Returned(ConcatPages(Len(responses)))
       /\ Len(retval.value) = SumPageLens(Len(responses))
       /\ \A k \in 2..Len(requests) : requests[k][3]["offset"] = (k - 2) * PageSize

\* a run returned a list shorter than total, built from a two-element page
\* followed by another page, after a probe response that held a business
C11_Witness ==
  /\ pc = "done"
  /\ Len(responses) >= 3
  /\ responses[1]["businesses"] = <<"b1">>
  /\ responses[2]["businesses"] = <<"b2", "b1">>
  /\ responses[3]["businesses"] = <<"b2">>
  /\ retval.value = <<"b2", "b1", "b2">>
  /\ Len(retval.value) < responses[1]["total"]

\* C22: paginated_restaurant_search_requests sends nothing: every request
\* of a run is the probe or a page request of the loop of all_restaurants.
\* The probe comes first, then all tuples are built, then the page requests
\* follow: no tuple is built after a page request, and when the first page
\* request is sent every tuple of restaurant_pages exists.
C22_ProbeThenBuildsThenPages ==
  /\ Len(requests) = Count(trace, "probe") + Count(trace, "page")
  /\ trace # <<>> => (trace[1] = "probe" /\ Count(trace, "probe") = 1)
  /\ \A j, k \in 1..Len(trace) :
       (trace[j] \in {"build", "page"} /\ trace[k] = "probe") => k < j
  /\ \A j, k \in 1..Len(trace) :
       (trace[j] = "build" /\ trace[k] = "page") => j < k
  /\ pc = "pages" /\ i = 0 => Len(requests) = 1
  /\ Count(trace, "page") > 0 =>
       /\ Count(trace, "build") = Len(restaurant_pages)
       /\ Count(trace, "page") <= Len(restaurant_pages)
       /\ \A k \in 1..Count(trace, "page") :
            requests[k + 1] = <<restaurant_pages[k][1], restaurant_pages[k][2],
                                restaurant_pages[k][3]>>

\* a run that built three tuples and then sent the three page requests
C22_Witness ==
  /\ pc = "done"
  /\ Count(trace, "build") = 3
  /\ Count(trace, "page") = 3
  /\ Len(requests) = 4

\* C23: the probe request carries the location and offset = 0 and nothing
\* else, neither a limit nor a category filter; every page request carries
\* categories = "restaurants" (and limit = 20); the number of request tuples
\* is the page count of the total the probe response reported, the total of
\* the unfiltered search.
C23_ProbeUnfilteredPagesFiltered ==
  /\ Len(requests) >= 1 =>
       /\ DOMAIN requests[1][3] = {"location", "offset"}
       /\ requests[1][3]["offset"] = 0
       /\ requests[1][3]["location"] =
            IF impl = "ipynb" THEN ReplaceSpaces(location) ELSE location
  /\ \A k \in 2..Len(requests) :
       /\ {"categories", "limit", "offset"} \subseteq DOMAIN requests[k][3]
       /\ requests[k][3]["categories"] = "restaurants"
       /\ requests[k][3]["limit"] = PageSize
  /\ pc \in {"pages", "done"} =>
       Len(restaurant_pages) = CeilPages(responses[1]["total"])

\* a run whose probe had no filter and whose two page requests had one
C23_Witness ==
  /\ pc = "done"
  /\ Len(requests) = 3
  /\ requests[1][3] = ("location" :> <<"a", "-", "b">>) @@ ("offset" :> 0)
  /\ requests[2][3]["categories"] = "restaurants"
  /\ requests[3][3]["categories"] = "restaurants"
  /\ responses[1]["total"] > PageSize

\* the request tuple the claim C10 describes for page k (1-based)
ClaimedTuple(k) ==
  <<"https://api.yelp.com/v3/businesses/search",
    [Authorization |-> "Bearer " \o api_key],
    ("location" :> location) @@ ("limit" :> 20) @@ ("categories" :> "restaurants")
      @@ ("offset" :> 20 * (k - 1))>>

\* C10 (as claimed): once the probe total is known,
\* paginated_restaurant_search_requests returns ceil(total/20) tuples, tuple
\* k targeting the search endpoint with the bearer header of api_key and the
\* parameters location, limit = 20, categories = "restaurants" and
\* offset = 20 * (k - 1).
C10_TuplesAsClaimed ==
  (Len(responses) >= 1 /\ ~Faulty(1) /\ pc # "paginate") =>
    /\ error # "TypeError"
    /\ Len(restaurant_pages) = CeilPages(total_items)
    /\ \A k \in 1..Len(restaurant_pages) : restaurant_pages[k] = ClaimedTuple(k)

(***************************************************************************)
(* extract_reviews(url, html_fetcher) of the ipynb revision.               *)
(***************************************************************************)
\* the review units the page at u may hold: the second page holds other
\* reviews than the first and the third, so that the page of a record shows
SiteUnits(u) == IF u = "u2" THEN {Good2, NoAuthor} ELSE {Good1, NoAuthor}
SiteLinks == {<<>>} \cup {<<Link({"next"}, Href(u))>> : u \in Urls}
\* the pages a fetch fixture may serve at u: the link of the head, then the
\* review units
SiteDocs(u) ==
  {l \o us : l \in SiteLinks, us \in SeqsUpTo(SiteUnits(u), MaxSiteReviews)}
    \cup {<<Link({"next"}, EmptyDict)>>, <<Link({"next"}, Href("")), Good1>>}

\* the status codes html_fetcher may report next to the html
StatusCodes == {200, 404}

\* html_fetcher(u): the html of the fixture; as retrieve_html does, it raises
\* on a url that is no address of the fixture
html_fetcher(u) ==
  IF u \in DOMAIN site
  THEN [raised |-> "none", html |-> site[u]]
  ELSE [raised |-> "MissingSchema", html |-> <<>>]

InitReviews ==
  /\ IdleSearch
  /\ IdleParse
  /\ IdleOther
  /\ code = 0
  /\ site \in [Urls -> UNION {SiteDocs(u) : u \in Urls}]
  /\ \A u \in Urls : site[u] \in SiteDocs(u)
  /\ url = "u1"
  /\ reviews = <<>>
  /\ next_url = None
  /\ rpc = "first"
  /\ rerror = "none"
  /\ rretval = NotReturned
  /\ fetched = <<>>

\* FirstFetch refusing a response whose status code is not 200
FirstFetch_ChecksStatus ==
  /\ rpc = "first"
  /\ fetched' = Append(fetched, url)
  /\ \E c \in StatusCodes :
       /\ code' = IF html_fetcher(url).raised = "none" THEN c ELSE code
       /\ LET got == html_fetcher(url)
              p == parse_page(got.html)
          IN IF got.raised # "none"
             THEN /\ rpc' = "raised"
                  /\ rerror' = got.raised
                  /\ UNCHANGED <<reviews, next_url>>
             ELSE IF c # 200
             THEN /\ rpc' = "raised"
                  /\ rerror' = "HTTPError"
                  /\ UNCHANGED <<reviews, next_url>>
             ELSE IF p.raised # "none"
             THEN /\ rpc' = "raised"
                  /\ rerror' = p.raised
                  /\ UNCHANGED <<reviews, next_url>>
             ELSE /\ reviews' = p.reviews_list
                  /\ next_url' = p.url_next
                  /\ rpc' = "loop"
                  /\ rerror' = rerror
  /\ UNCHANGED <<site, url, rretval, searchVars, parseVars, otherVars>>

\* the lines before the while loop: fetch url, parse it
FirstFetch ==
  /\ rpc = "first"
  /\ fetched' = Append(fetched, url)
  /\ \E c \in StatusCodes : code' = IF html_fetcher(url).raised = "none" THEN c ELSE code
  /\ LET got == html_fetcher(url)
         p == parse_page(got.html)
     IN IF got.raised # "none"
        THEN /\ rpc' = "raised"
             /\ rerror' = got.raised
             /\ UNCHANGED <<reviews, next_url>>
        ELSE IF p.raised # "none"
        THEN /\ rpc' = "raised"
             /\ rerror' = p.raised
             /\ UNCHANGED <<reviews, next_url>>
        ELSE /\ reviews' = p.reviews_list
             /\ next_url' = p.url_next
             /\ rpc' = "loop"
             /\ rerror' = rerror
  /\ UNCHANGED <<site, url, rretval, searchVars, parseVars, otherVars>>

\* LoopFetch putting the records of the new page in front of the accumulated ones
LoopFetch_Prepend ==
  /\ rpc = "loop"
  /\ next_url # None
  /\ Len(fetched) < MaxFetches
  /\ fetched' = Append(fetched, next_url.str)
  /\ \E c \in StatusCodes :
       code' = IF html_fetcher(next_url.str).raised = "none" THEN c ELSE code
  /\ LET got == html_fetcher(next_url.str)
         p == parse_page(got.html)
     IN IF got.raised # "none"
        THEN /\ rpc' = "raised"
             /\ rerror' = got.raised
             /\ UNCHANGED <<reviews, next_url>>
        ELSE IF p.raised # "none"
        THEN /\ rpc' = "raised"
             /\ rerror' = p.raised
             /\ UNCHANGED <<reviews, next_url>>
        ELSE /\ reviews' = p.reviews_list \o reviews
             /\ next_url' = p.url_next
             /\ rpc' = rpc
             /\ rerror' = rerror
  /\ UNCHANGED <<site, url, rretval, searchVars, parseVars, otherVars>>

\* LoopFetch without `next_url = next_url_temp`: the pointer is never replaced
LoopFetch_KeepPointer ==
  /\ rpc = "loop"
  /\ next_url # None
  /\ Len(fetched) < MaxFetches
  /\ fetched' = Append(fetched, next_url.str)
  /\ \E c \in StatusCodes :
       code' = IF html_fetcher(next_url.str).raised = "none" THEN c ELSE code
  /\ LET got == html_fetcher(next_url.str)
         p == parse_page(got.html)
     IN IF got.raised # "none"
        THEN /\ rpc' = "raised"
             /\ rerror' = got.raised
             /\ UNCHANGED <<reviews, next_url>>
        ELSE IF p.raised # "none"
        THEN /\ rpc' = "raised"
             /\ rerror' = p.raised
             /\ UNCHANGED <<reviews, next_url>>
        ELSE /\ reviews' = reviews \o p.reviews_list
             /\ next_url' = next_url
             /\ rpc' = rpc
             /\ rerror' = rerror
  /\ UNCHANGED <<site, url, rretval, searchVars, parseVars, otherVars>>

\* LoopFetch with a visited set: a continuation that names a page already
\* fetched ends the loop
LoopFetch_StopsOnRevisit ==
  /\ rpc = "loop"
  /\ next_url # None
  /\ Len(fetched) < MaxFetches
  /\ fetched' = Append(fetched, next_url.str)
  /\ \E c \in StatusCodes :
       code' = IF html_fetcher(next_url.str).raised = "none" THEN c ELSE code
  /\ LET got == html_fetcher(next_url.str)
         p == parse_page(got.html)
     IN IF got.raised # "none"
        THEN /\ rpc' = "raised"
             /\ rerror' = got.raised
             /\ UNCHANGED <<reviews, next_url>>
        ELSE IF p.raised # "none"
        THEN /\ rpc' = "raised"
             /\ rerror' = p.raised
             /\ UNCHANGED <<reviews, next_url>>
        ELSE /\ reviews' = reviews \o p.reviews_list
             /\ next_url' = IF p.url_next # None
                                /\ \E k \in 1..Len(fetched') : fetched'[k] = p.url_next.str
                             THEN None
                             ELSE p.url_next
             /\ rpc' = rpc
             /\ rerror' = rerror
  /\ UNCHANGED <<site, url, rretval, searchVars, parseVars, otherVars>>

\* LoopFetch swallowing a failed fetch or parse: the pointer stays and the
\* same page is fetched again
LoopFetch_Retries ==
  /\ rpc = "loop"
  /\ next_url # None
  /\ Len(fetched) < MaxFetches
  /\ fetched' = Append(fetched, next_url.str)
  /\ \E c \in StatusCodes :
       code' = IF html_fetcher(next_url.str).raised = "none" THEN c ELSE code
  /\ LET got == html_fetcher(next_url.str)
         p == parse_page(got.html)
     IN IF got.raised # "none" \/ p.raised # "none"
        THEN /\ rpc' = rpc
             /\ UNCHANGED <<reviews, next_url, rerror>>
        ELSE /\ reviews' = reviews \o p.reviews_list
             /\ next_url' = p.url_next
             /\ rpc' = rpc
             /\ rerror' = rerror
  /\ UNCHANGED <<site, url, rretval, searchVars, parseVars, otherVars>>

\* one iteration of `while (next_url != None)`
LoopFetch ==
  /\ rpc = "loop"
  /\ next_url # None
  /\ Len(fetched) < MaxFetches
  /\ fetched' = Append(fetched, next_url.str)
  /\ \E c \in StatusCodes :
       code' = IF html_fetcher(next_url.str).raised = "none" THEN c ELSE code
  /\ LET got == html_fetcher(next_url.str)
         p == parse_page(got.html)
     IN IF got.raised # "none"
        THEN /\ rpc' = "raised"
             /\ rerror' = got.raised
             /\ UNCHANGED <<reviews, next_url>>
        ELSE IF p.raised # "none"
        THEN /\ rpc' = "raised"
             /\ rerror' = p.raised
             /\ UNCHANGED <<reviews, next_url>>
        ELSE /\ reviews' = reviews \o p.reviews_list
             /\ next_url' = p.url_next
             /\ rpc' = rpc
             /\ rerror' = rerror
  /\ UNCHANGED <<site, url, rretval, searchVars, parseVars, otherVars>>

\* `return reviews` once next_url is None
ReturnReviews ==
  /\ rpc = "loop"
  /\ next_url = None
  /\ rpc' = "done"
  /\ rretval' = Returned(reviews)
  /\ UNCHANGED <<site, url, reviews, next_url, rerror, fetched, code, searchVars,
                 parseVars, otherVars>>

NextReviews == FirstFetch \/ LoopFetch \/ ReturnReviews

SpecReviews == InitReviews /\ [][NextReviews]_vars

\* the loop of extract_reviews has no competitor: a step that can be taken is taken
FairReviews == SpecReviews /\ WF_vars(NextReviews)

(***************************************************************************)
(* Properties of extract_reviews.                                          *)
(***************************************************************************)
\* the urls of the pages reached from u by following the next links of the
\* fixture, n pages at most
RECURSIVE ChainFrom(_, _)
ChainFrom(u, n) ==
  IF n = 0 \/ u \notin Urls
  THEN <<>>
  ELSE LET nx == FirstNextHref(site[u])
       IN <<u>> \o (IF nx = None THEN <<>> ELSE ChainFrom(nx.str, n - 1))

\* the pages reached from the start url
Chain == ChainFrom(url, Cardinality(Urls) + 1)

WellFormedDoc(doc) == \A k \in 1..Len(UnitsOf(doc)) : WellFormed(UnitsOf(doc)[k])

\* the chain P1 -> ... -> Pk -> None of the claims: it ends, after k >= 1
\* pages, at a page without continuation, and every page of it is well formed
FiniteWellFormedChain ==
  /\ Len(Chain) \in 1..Cardinality(Urls)
  /\ FirstNextHref(site[Chain[Len(Chain)]]) = None
  /\ \A k \in 1..Len(Chain) : WellFormedDoc(site[Chain[k]])

\* the records of the review units of a document, in document order
RecordsOf(doc) == [k \in 1..Len(UnitsOf(doc)) |-> RecordOf(UnitsOf(doc)[k])]

\* the records of the first n pages of the chain c, page after page
RECURSIVE RecordsOfChain(_, _)
RecordsOfChain(c, n) ==
  IF n = 0 THEN <<>> ELSE RecordsOfChain(c, n - 1) \o RecordsOf(site[c[n]])

C4_EventuallyReturns == FiniteWellFormedChain ~> (rpc = "done")

\* extract_reviews returned after following at least one continuation
C4_Witness ==
  /\ FiniteWellFormedChain
  /\ rpc = "done"
  /\ rretval.returned
  /\ Len(fetched) >= 2

\* what extract_reviews has done after n fetches, from the html of the
\* site alone: the urls fetched, the records accumulated, the pointer, and the
\* failure if one of the pages failed
RECURSIVE RunAfter(_)
RunAfter(n) ==
  IF n = 0
  THEN [fetched |-> <<>>, reviews |-> <<>>, next |-> Str(url), failed |-> "none"]
  ELSE LET r == RunAfter(n - 1)
       IN IF r.failed # "none" \/ r.next = None
          THEN r
          ELSE IF r.next.str \notin DOMAIN site
          THEN [r EXCEPT !.fetched = Append(r.fetched, r.next.str),
                         !.failed = "MissingSchema"]
          ELSE LET p == parse_page(site[r.next.str])
               IN IF p.raised # "none"
                  THEN [r EXCEPT !.fetched = Append(r.fetched, r.next.str),
                                 !.failed = p.raised]
                  ELSE [fetched |-> Append(r.fetched, r.next.str),
                        reviews |-> r.reviews \o p.reviews_list,
                        next |-> p.url_next,
                        failed |-> "none"]

\* C14: whatever status codes the fetch function returns, the fetches of
\* extract_reviews, the records it accumulates and returns, and the page at
\* which it fails are those determined by the html of the pages alone.
C14_OutcomeIgnoresStatusCodes ==
  rpc # "first" =>
    LET r == RunAfter(Len(fetched))
    IN /\ fetched = r.fetched
       /\ reviews = r.reviews
       /\ rerror = r.failed
       /\ (rpc = "raised") <=> (r.failed # "none")
       /\ rpc # "raised" => next_url = r.next
       /\ rpc = "done" => rretval = Returned(r.reviews)
       /\ rpc # "done" => rretval = NotReturned

\* a run over two pages returned records although the last fetch came back
\* with status 404
C14_Witness ==
  /\ rpc = "done"
  /\ code = 404
  /\ Len(fetched) >= 2
  /\ rretval.value # <<>>

\* the continuation pointers from the start url lead back to a page already
\* on the chain, and every page on the way parses
Cyclic ==
  /\ Len(Chain) = Cardinality(Urls) + 1
  /\ \A k \in 1..Len(Chain) : WellFormedDoc(site[Chain[k]])

\* some url has been fetched more than once
Refetched == \E j, k \in 1..Len(fetched) : j < k /\ fetched[j] = fetched[k]

\* C16: when the continuation pointers form a cycle, extract_reviews never
\* returns and never fails, and it goes on fetching: the number of fetches
\* reaches every bound put on it, with the loop still open.
C16_CycleNeverReturns ==
  /\ [](Cyclic => (rpc \notin {"done", "raised"} /\ rretval = NotReturned))
  /\ Cyclic ~> (Len(fetched) = MaxFetches /\ rpc = "loop" /\ next_url # None)

\* the loop has gone round a cycle and is about to fetch again
C16_Witness ==
  /\ Cyclic
  /\ Len(fetched) = MaxFetches
  /\ Refetched
  /\ rpc = "loop"
  /\ next_url # None
  /\ reviews # <<>>

\* fetching u fails, or parsing what is fetched at u fails
Fails(u) == u \notin DOMAIN site \/ parse_page(site[u]).raised # "none"

\* C17: when the fetch or the parse of the j-th page fails,
\* extract_reviews raises there: exactly j fetches were made, of j different
\* urls, the first j-1 of them without failure; nothing is returned; and no
\* step follows, so no page is fetched again or after it.
C17_FailureAbortsAtPage ==
  /\ [](\A j \in 1..Len(fetched) :
          Fails(fetched[j]) =>
            /\ rpc = "raised"
            /\ rerror # "none"
            /\ j = Len(fetched)
            /\ \A a, b \in 1..j : a < b => fetched[a] # fetched[b]
            /\ rretval = NotReturned)
  /\ [](rpc = "raised" => Fails(fetched[Len(fetched)]))
  /\ [][rpc # "raised"]_vars

\* the third page of a chain failed after records of two pages were accumulated
C17_Witness ==
  /\ rpc = "raised"
  /\ Len(fetched) = 3
  /\ Len(reviews) = 2
  /\ rretval = NotReturned

\* the first next-link element of the document
FirstNextLink(doc) == doc[Least(NextLinkAt(doc))]

\* C24: extract_reviews returns only with the continuation None.  After a
\* page that parses and whose first next-link has no href the continuation
\* is None and no page is fetched any more; after a page that parses and
\* whose first next-link has the href "" the continuation is not None, the
\* run does not return there, and its next fetch is that of "".
C24_StopsOnlyOnNone ==
  /\ rpc = "done" =>
       /\ next_url = None
       /\ FirstNextHref(site[fetched[Len(fetched)]]) = None
  /\ \A k \in 1..Len(fetched) :
       (~Fails(fetched[k]) /\ NextLinkAt(site[fetched[k]]) # {}) =>
         LET first == FirstNextLink(site[fetched[k]])
         IN /\ "href" \notin DOMAIN first.attrs =>
                 /\ k = Len(fetched)
                 /\ next_url = None
                 /\ rpc \in {"loop", "done"}
            /\ ("href" \in DOMAIN first.attrs /\ first.attrs["href"] = "") =>
                 IF k = Len(fetched)
                 THEN rpc = "loop" /\ next_url = Str("") /\ next_url # None
                 ELSE fetched[k + 1] = ""

\* the second page of a chain had a next-link with an empty href, and the
\* third fetch was that of the empty string
C24_Witness ==
  /\ Len(fetched) = 3
  /\ fetched[3] = ""
  /\ "href" \in DOMAIN FirstNextLink(site[fetched[2]]).attrs
  /\ reviews # <<>>

(***************************************************************************)
(* get_business_id and extract_reviews(api_key, name, address, city,       *)
(* state, country) of the part_000 revision.                               *)
(***************************************************************************)
ApiKeys == {"k1", "k2"}
BusinessArgs ==
  {[name |-> "jibarito shop", address |-> "1646 W 18th St", city |-> "Chicago",
    state |-> "IL", country |-> "US"],
   [name |-> "nowhere", address |-> "", city |-> "Chicago", state |-> "IL",
    country |-> "US"]}

ValidationError == [code |-> "VALIDATION_ERROR", description |-> "not a valid request"]

\* the JSON bodies the upstream may answer the business match request with
MatchResponses ==
  {"error" :> ValidationError,
   ("error" :> ValidationError) @@ ("businesses" :> <<>>),
   "businesses" :> <<>>,
   "businesses" :> <<"id" :> "id1">>,
   "businesses" :> <<"id" :> "id2", "id" :> "id1">>,
   "businesses" :> <<"name" :> "n1">>,
   "total" :> 0}

ApiReviews == {"r1", "r2"}
\* the JSON bodies the upstream may answer the reviews request with
ReviewsResponses ==
  {("reviews" :> r) @@ ("total" :> t) : r \in SeqsUpTo(ApiReviews, MaxApiReviews), t \in {0, 7}}
    \cup {"total" :> 7, "reviews" :> <<"r1">>, "error" :> ValidationError}

\* the part of get_business_id after the request: what it makes of response_json
BusinessIdOf(response_json) ==
  IF "error" \in DOMAIN response_json
  THEN IF {"code", "description"} \subseteq DOMAIN response_json["error"]
       THEN [raised |-> "none", value |-> None]
       ELSE [raised |-> "KeyError", value |-> None]
  ELSE IF "businesses" \notin DOMAIN response_json
       THEN [raised |-> "KeyError", value |-> None]
  ELSE IF response_json["businesses"] = <<>>
       THEN [raised |-> "IndexError", value |-> None]
  ELSE IF "id" \notin DOMAIN response_json["businesses"][1]
       THEN [raised |-> "KeyError", value |-> None]
  ELSE [raised |-> "none", value |-> Str(response_json["businesses"][1]["id"])]

\* the request of get_business_id
MatchParams(key, b) ==
  get_url_params(<<"/matches", key>>,
                 ("name" :> b.name) @@ ("address1" :> b.address) @@ ("city" :> b.city)
                   @@ ("state" :> b.state) @@ ("country" :> b.country))

\* the request of extract_reviews for the business id
ReviewsParams(key, id) == get_url_params(<<("/" \o id) \o "/reviews", key>>, EmptyDict)

InitApi ==
  /\ IdleParse
  /\ IdleReviews
  /\ IdleYelp
  /\ IdleJson
  /\ impl = "part_000"
  /\ api_key \in ApiKeys
  /\ location = <<>>
  /\ pc = "idle"
  /\ total_items = -1
  /\ restaurant_pages = <<>>
  /\ i = 0
  /\ result = <<>>
  /\ retval = NotReturned
  /\ error = "none"
  /\ requests = <<>>
  /\ responses = <<>>
  /\ trace = <<>>
  /\ business \in BusinessArgs
  /\ business_id = None
  /\ apc = "lookup"
  /\ aretval = NoPair

\* Lookup going on to the reviews request although get_business_id returned None
Lookup_IgnoresNone ==
  /\ apc = "lookup"
  /\ \E response_json \in MatchResponses :
       LET got == BusinessIdOf(response_json)
       IN /\ requests' = Append(requests, MatchParams(api_key, business).value)
          /\ responses' = Append(responses, response_json)
          /\ IF got.raised # "none"
             THEN /\ apc' = "raised"
                  /\ error' = got.raised
                  /\ UNCHANGED <<business_id, aretval>>
             ELSE /\ business_id' = got.value
                  /\ apc' = "reviews"
                  /\ UNCHANGED <<error, aretval>>
  /\ UNCHANGED <<impl, api_key, location, pc, total_items, restaurant_pages, i,
                 result, retval, trace, business>>
  /\ UNCHANGED <<parseVars, reviewVars, yelpVars, jsonVars>>

\* business_id = get_business_id(...) and the `if business_id == None` after it
Lookup ==
  /\ apc = "lookup"
  /\ \E response_json \in MatchResponses :
       LET got == BusinessIdOf(response_json)
       IN /\ requests' = Append(requests, MatchParams(api_key, business).value)
          /\ responses' = Append(responses, response_json)
          /\ IF got.raised # "none"
             THEN /\ apc' = "raised"
                  /\ error' = got.raised
                  /\ UNCHANGED <<business_id, aretval>>
             ELSE IF got.value = None
             THEN /\ business_id' = None
                  /\ apc' = "done"
                  /\ aretval' = ReturnedNone
                  /\ error' = error
             ELSE /\ business_id' = got.value
                  /\ apc' = "reviews"
                  /\ UNCHANGED <<error, aretval>>
  /\ UNCHANGED <<impl, api_key, location, pc, total_items, restaurant_pages, i,
                 result, retval, trace, business>>
  /\ UNCHANGED <<parseVars, reviewVars, yelpVars, jsonVars>>

\* the reviews request of extract_reviews and its return
ReviewsRequest ==
  /\ apc = "reviews"
  /\ \E response_json \in ReviewsResponses :
       /\ requests' = Append(requests, ReviewsParams(api_key, business_id.str).value)
       /\ responses' = Append(responses, response_json)
       /\ IF {"reviews", "total"} \subseteq DOMAIN response_json
          THEN /\ apc' = "done"
               /\ aretval' = ReturnedPair(response_json["reviews"], response_json["total"])
               /\ error' = error
          ELSE /\ apc' = "raised"
               /\ error' = "KeyError"
               /\ aretval' = aretval
  /\ UNCHANGED <<impl, api_key, location, pc, total_items, restaurant_pages, i,
                 result, retval, trace, business, business_id>>
  /\ UNCHANGED <<parseVars, reviewVars, yelpVars, jsonVars>>

NextApi == Lookup \/ ReviewsRequest

SpecApi == InitApi /\ [][NextApi]_vars

(***************************************************************************)
(* Properties of get_business_id and of the API extract_reviews.           *)
(***************************************************************************)
\* the match response reports that no business matches
NoMatch(response_json) ==
  \/ "error" \in DOMAIN response_json
  \/ ("businesses" \in DOMAIN response_json /\ response_json["businesses"] = <<>>)

\* C12 (as claimed): when the match response carries an `error` entry or an
\* empty `businesses` array, get_business_id returns None and does not raise.
C12_NoMatchReturnsNone ==
  (apc # "lookup" /\ NoMatch(responses[1])) =>
    /\ error = "none"
    /\ apc # "raised"
    /\ business_id = None

\* C19: when get_business_id returns None, extract_reviews returns None
\* after the match request alone; when it returns an id, the only further
\* request is the one to /<id>/reviews with the bearer header and no
\* parameter, and a response holding `reviews` and `total` is returned as the
\* pair (reviews, total).
C19_NoneOrOneReviewsRequest ==
  apc # "lookup" =>
    LET got == BusinessIdOf(responses[1])
    IN /\ requests[1][1] = "https://api.yelp.com/v3/businesses/matches"
       /\ (got.raised = "none" /\ got.value = None) =>
            (apc = "done" /\ aretval = ReturnedNone /\ Len(requests) = 1)
       /\ (got.raised = "none" /\ got.value # None) =>
            /\ apc # "reviews" =>
                 /\ Len(requests) = 2
                 /\ requests[2] = <<("https://api.yelp.com/v3/businesses/" \o got.value.str)
                                      \o "/reviews",
                                    [Authorization |-> "Bearer " \o api_key], EmptyDict>>
                 /\ ({"reviews", "total"} \subseteq DOMAIN responses[2] =>
                       /\ apc = "done"
                       /\ aretval = ReturnedPair(responses[2]["reviews"], responses[2]["total"]))
            /\ apc = "reviews" => Len(requests) = 1

\* extract_reviews returned the reviews and the total of the business found
C19_Witness ==
  /\ apc = "done"
  /\ business_id = Str("id2")
  /\ Len(requests) = 2
  /\ aretval = ReturnedPair(<<"r2", "r1">>, 7)

(***************************************************************************)
(* yelp_search(api_key, location, offset = 0).                             *)
(***************************************************************************)
Offsets == {0, PageSize, 2 * PageSize}

\* a `businesses` array one entry longer than the page size the upstream
\* applies when the request names no limit
OverfullPage == [k \in 1..(PageSize + 1) |-> IF k % 2 = 1 THEN "b1" ELSE "b2"]

\* the JSON bodies the upstream may answer the search request with
SearchResponses ==
  {("total" :> t) @@ ("businesses" :> b) :
     t \in {0, 2 * PageSize + 5}, b \in BizLists \cup {<<"b2", "b1">>}}
    \cup {"total" :> 0, "businesses" :> <<"b1">>}
    \cup {("total" :> 2 * PageSize + 5) @@ ("businesses" :> OverfullPage)}

\* the call of the parameter builder in yelp_search
SearchParams(im, key, loc, off) ==
  IF im = "ipynb"
  THEN location_search_params(key, loc, "offset" :> 0)
  ELSE get_url_params(<<"/search", key>>, ("location" :> loc) @@ ("offset" :> off))

InitYelp ==
  /\ IdleParse
  /\ IdleReviews
  /\ IdleApi
  /\ IdleJson
  /\ impl \in Impls
  /\ \E c \in Callers : api_key = c[1] /\ location = c[2]
  /\ pc = "idle"
  /\ total_items = -1
  /\ restaurant_pages = <<>>
  /\ i = 0
  /\ result = <<>>
  /\ retval = NotReturned
  /\ error = "none"
  /\ requests = <<>>
  /\ responses = <<>>
  /\ trace = <<>>
  /\ offset \in Offsets
  /\ ypc = "start"
  /\ yretval = NoSearchResult

\* the body of yelp_search: build the request, send it, return total and businesses
YelpSearch ==
  /\ ypc = "start"
  /\ LET p == SearchParams(impl, api_key, location, offset)
     IN IF p.raised # "none"
        THEN /\ ypc' = "raised"
             /\ error' = p.raised
             /\ UNCHANGED <<requests, responses, yretval>>
        ELSE \E response_json \in SearchResponses :
               /\ requests' = Append(requests, p.value)
               /\ responses' = Append(responses, response_json)
               /\ IF {"total", "businesses"} \subseteq DOMAIN response_json
                  THEN /\ ypc' = "done"
                       /\ yretval' = SearchResult(response_json["total"],
                                                  response_json["businesses"])
                       /\ error' = error
                  ELSE /\ ypc' = "raised"
                       /\ error' = "KeyError"
                       /\ yretval' = yretval
  /\ UNCHANGED <<impl, api_key, location, pc, total_items, restaurant_pages, i,
                 result, retval, trace, offset>>
  /\ UNCHANGED <<parseVars, reviewVars, apiVars, jsonVars>>

NextYelp == YelpSearch

SpecYelp == InitYelp /\ [][NextYelp]_vars

\* C13 (as claimed): yelp_search issues one search request whose offset
\* parameter equals the offset argument, whatever the offset, and returns the
\* total and the businesses of the response.
C13_RequestOffsetIsArgument ==
  ypc # "start" =>
    /\ Len(requests) = 1
    /\ requests[1][1] = "https://api.yelp.com/v3/businesses/search"
    /\ requests[1][3]["offset"] = offset
    /\ ({"total", "businesses"} \subseteq DOMAIN responses[1] =>
          /\ ypc = "done"
          /\ yretval = SearchResult(responses[1]["total"], responses[1]["businesses"]))

\* C21 (as claimed): whatever the location and whatever the upstream answers,
\* yelp_search returns at most 20 businesses.
C21_AtMostPageSizeBusinesses ==
  ypc = "done" => Len(yretval.businesses) <= PageSize

(***************************************************************************)
(* parse_api_response(data), the same in both revisions.                   *)
(***************************************************************************)
\* the entries of a `businesses` array: with a url, with a url and more, without
BusinessEntries ==
  {"url" :> "w1", "url" :> "w2", ("url" :> "w1") @@ ("name" :> "n1"), "name" :> "n2"}

\* the str arguments parse_api_response is called with
JsonTexts ==
  {JsonText(("businesses" :> b) @@ ("total" :> 0)) : b \in SeqsUpTo(BusinessEntries, MaxBusinesses)}
    \cup {JsonText("total" :> 0), NotJson}

json_loads(text) ==
  IF text.json
  THEN [raised |-> "none", value |-> text.value]
  ELSE [raised |-> "JSONDecodeError", value |-> EmptyDict]

\* UrlsFrom with a test for the key: an entry without `url` is left out
RECURSIVE UrlsFrom_Skip(_, _, _)
UrlsFrom_Skip(data_, k, acc) ==
  IF k > Len(data_)
  THEN [raised |-> "none", urls |-> acc]
  ELSE IF "url" \notin DOMAIN data_[k]
  THEN UrlsFrom_Skip(data_, k + 1, acc)
  ELSE UrlsFrom_Skip(data_, k + 1, Append(acc, data_[k]["url"]))

\* the for loop of parse_api_response from index k (1-based) on
RECURSIVE UrlsFrom(_, _, _)
UrlsFrom(data_, k, acc) ==
  IF k > Len(data_)
  THEN [raised |-> "none", urls |-> acc]
  ELSE IF "url" \notin DOMAIN data_[k]
  THEN [raised |-> "KeyError", urls |-> <<>>]
  ELSE UrlsFrom(data_, k + 1, Append(acc, data_[k]["url"]))

parse_api_response(text) ==
  LET loaded == json_loads(text)
  IN IF loaded.raised # "none"
     THEN [raised |-> loaded.raised, urls |-> <<>>]
     ELSE IF "businesses" \notin DOMAIN loaded.value
     THEN [raised |-> "KeyError", urls |-> <<>>]
     ELSE UrlsFrom(loaded.value["businesses"], 1, <<>>)

InitJson ==
  /\ IdleSearch
  /\ IdleParse
  /\ IdleReviews
  /\ IdleYelp
  /\ IdleApi
  /\ data \in JsonTexts
  /\ urls = <<>>
  /\ jpc = "call"

\* one call parse_api_response(data); urls is what the call returns
ParseApiResponse ==
  /\ jpc = "call"
  /\ LET out == parse_api_response(data)
     IN IF out.raised # "none"
        THEN /\ jpc' = "raised"
             /\ error' = out.raised
             /\ urls' = urls
        ELSE /\ jpc' = "returned"
             /\ urls' = out.urls
             /\ error' = error
  /\ UNCHANGED <<impl, api_key, location, pc, total_items, restaurant_pages, i,
                 result, retval, requests, responses, trace, data>>
  /\ UNCHANGED <<parseVars, reviewVars, yelpVars, apiVars>>

NextJson == ParseApiResponse

SpecJson == InitJson /\ [][NextJson]_vars

\* C20: on JSON with a `businesses` array whose entries all have a `url`,
\* parse_api_response returns as many urls as the array has entries, url k
\* being the `url` of entry k; when `businesses` or the `url` of some entry
\* is absent it raises KeyError and returns no list, not even that of the
\* entries before the one without url.
C20_OneUrlPerBusinessInOrder ==
  (jpc # "call" /\ data.json) =>
    IF "businesses" \in DOMAIN data.value
       /\ \A k \in 1..Len(data.value["businesses"]) :
            "url" \in DOMAIN data.value["businesses"][k]
    THEN /\ jpc = "returned"
         /\ error = "none"
         /\ Len(urls) = Len(data.value["businesses"])
         /\ \A k \in 1..Len(urls) : urls[k] = data.value["businesses"][k]["url"]
    ELSE /\ jpc = "raised"
         /\ error = "KeyError"
         /\ urls = <<>>

\* parse_api_response returned the urls of three businesses, a repeated one
\* included
C20_Witness ==
  /\ jpc = "returned"
  /\ urls = <<"w2", "w1", "w2">>

====
